---------------------------- MODULE Spec2Model ----------------------------
(***************************************************************************)
(* Model of the food tracker of src/app.py: a Streamlit script that is     *)
(* executed from top to bottom on every page load and every widget event.  *)
(* The durable state is three files (foods.csv, log.csv, goals.json), the  *)
(* process-wide cache of load_foods, and the widget state of the browser   *)
(* session.  One action of the model is one whole execution of the script  *)
(* for one triggering event.                                               *)
(*                                                                         *)
(* Numbers: pandas and Python compute in floating point.  The model        *)
(* computes in exact rationals [n, d] (d > 0, lowest terms), over inputs   *)
(* that are finite numbers; rounding error is outside the model.           *)
(* Text: a string is a sequence of chunks, each either the blank " " or a  *)
(* run of non-blank text, so that str.strip() is a computation.            *)
(* Time: a pandas Timestamp is a number of ticks, TicksPerDay ticks to a   *)
(* calendar day; tick 0 of a day is midnight.                              *)
(***************************************************************************)
EXTENDS Integers, Sequences, FiniteSets

------------------------------------------------------------------------------
(* Bounds of the model *)

\* Longest log the 'Add to log' button is pressed on.
MaxLog == 2
\* Longest catalog the 'Add food' button is pressed on.
MaxFoods == 2
\* date.today() of every run, as a day number (the runs of one day).
Today == 7
\* Resolution of the time of day: ticks per calendar day.
TicksPerDay == 2

------------------------------------------------------------------------------
(* Rational arithmetic *)

Abs(x) == IF x < 0 THEN -x ELSE x

RECURSIVE GCD(_, _)
GCD(a, b) == IF b = 0 THEN a ELSE GCD(b, a % b)

\* The rational n/d in lowest terms with a positive denominator (d # 0).
Rat(n, d) ==
    LET g == GCD(Abs(n), Abs(d))
        s == IF d < 0 THEN -1 ELSE 1
    IN  [n |-> (s * n) \div g, d |-> (s * d) \div g]

R(i) == [n |-> i, d |-> 1]
RatAdd(a, b) == Rat(a.n * b.d + b.n * a.d, a.d * b.d)
RatMul(a, b) == Rat(a.n * b.n, a.d * b.d)
RatDiv(a, b) == Rat(a.n * b.d, a.d * b.n)
RatLess(a, b) == a.n * b.d < b.n * a.d

------------------------------------------------------------------------------
(* Text and dates *)

Blank == " "

\* str.strip(): the text without its leading and trailing blanks.
RECURSIVE LStrip(_)
LStrip(s) == IF s # <<>> /\ Head(s) = Blank THEN LStrip(Tail(s)) ELSE s

RECURSIVE RStrip(_)
RStrip(s) ==
    IF s # <<>> /\ s[Len(s)] = Blank THEN RStrip(SubSeq(s, 1, Len(s) - 1)) ELSE s

Strip(s) == RStrip(LStrip(s))

\* pd.to_datetime(day) of a datetime.date: midnight of that day.
to_datetime(day) == day * TicksPerDay

\* Series.dt.date: the calendar day of a timestamp.
dt_date(ts) == ts \div TicksPerDay

\* read_csv(parse_dates=["date"]) of a date cell "day [time of day]".
ParseDate(cell) == cell.day * TicksPerDay + cell.tod

------------------------------------------------------------------------------
(* Stored data *)

NutrientCols == {"calories", "protein_g", "fat_g", "sat_fat_g"}

FoodRow(name, base, unit, cal, prot, fat, sat) ==
    [name |-> name, base_amount |-> base, unit |-> unit, calories |-> cal,
     protein_g |-> prot, fat_g |-> fat, sat_fat_g |-> sat]

\* The two foods foods.csv is seeded with when it does not exist.
Seed ==
    << FoodRow(<<"Chicken breast (raw)">>, R(100), "g",
               R(165), R(31), Rat(36, 10), R(1)),
       FoodRow(<<"Rolled oats (dry)">>, R(100), "g",
               R(379), R(13), R(7), Rat(12, 10)) >>

\* The goals goals.json is created with when it does not exist.
DefaultGoals == [calories |-> 1800, protein_g |-> 120, sat_fat_g |-> 20]

\* min_value and max_value of the three goal inputs of the sidebar.
GoalLimits ==
    [calories  |-> [min |-> 500, max |-> 5000],
     protein_g |-> [min |-> 20, max |-> 400],
     sat_fat_g |-> [min |-> 5, max |-> 80]]

\* min_value of the quantity input.
QtyMin == R(1)

\* A file that is missing, and a file holding `content`.
NoFile == [exists |-> FALSE, content |-> <<>>]
File(content) == [exists |-> TRUE, content |-> content]

\* The load_foods cache, empty or holding the catalog of one load.
NoCache == [valid |-> FALSE, content |-> <<>>]
Cached(content) == [valid |-> TRUE, content |-> content]

\* A file uploader with no file selected, and one holding `content`.
NoUpload == [selected |-> FALSE, content |-> <<>>]
Upload(content) == [selected |-> TRUE, content |-> content]

\* DataFrame.to_csv / pd.read_csv of the date column of the log.
FormatDate(ts) == [day |-> ts \div TicksPerDay, tod |-> ts % TicksPerDay]

\* pd.read_csv(..., parse_dates=["date"]): the rows with their dates parsed.
read_log_csv(rows) ==
    [i \in 1..Len(rows) |-> [rows[i] EXCEPT !.date = ParseDate(rows[i].date)]]

\* DataFrame.to_csv of a log: the rows with their dates written out.
log_to_csv(df) ==
    [i \in 1..Len(df) |-> [df[i] EXCEPT !.date = FormatDate(df[i].date)]]

------------------------------------------------------------------------------
(* Helper computations *)

\* compute_nutrients as it would be with the factor upside down.
compute_nutrients_inverted(row, qty) ==
    LET factor == RatDiv(row["base_amount"], qty)
    IN  [calories  |-> RatMul(row["calories"], factor),
         protein_g |-> RatMul(row["protein_g"], factor),
         fat_g     |-> RatMul(row["fat_g"], factor),
         sat_fat_g |-> RatMul(row["sat_fat_g"], factor)]

\* compute_nutrients(row, qty): the nutrients of qty of the food of row.
compute_nutrients(row, qty) ==
    LET factor == RatDiv(qty, row["base_amount"])
    IN  [calories  |-> RatMul(row["calories"], factor),
         protein_g |-> RatMul(row["protein_g"], factor),
         fat_g     |-> RatMul(row["fat_g"], factor),
         sat_fat_g |-> RatMul(row["sat_fat_g"], factor)]

\* DataFrame[col].sum() over the rows of df, 0 for no rows.
RECURSIVE ColSum(_, _)
ColSum(df, col) ==
    IF df = <<>> THEN R(0) ELSE RatAdd(Head(df)[col], ColSum(Tail(df), col))

\* daily_summary(log_df, day): the rows of the day and their totals.
daily_summary(log_df, day) ==
    LET day_df == SelectSeq(log_df, LAMBDA e : e.date = to_datetime(day))
        totals == [c \in NutrientCols |-> ColSum(day_df, c)]
    IN  [day_df |-> day_df, totals |-> totals]

\* The days of a set in ascending order (the order groupby yields its keys in).
RECURSIVE Ascending(_)
Ascending(S) ==
    IF S = {} THEN <<>>
    ELSE LET m == CHOOSE x \in S : \A y \in S : x <= y
         IN  <<m>> \o Ascending(S \ {m})

\* weekly_summary(log_df, end_day): the rows of the seven days ending at
\* end_day, and one row per calendar day among them with the day's sums.
weekly_summary(log_df, end_day) ==
    LET start == to_datetime(end_day) - 6 * TicksPerDay
        week == SelectSeq(log_df,
                    LAMBDA e : e.date >= start /\ e.date <= to_datetime(end_day))
        keys == Ascending({dt_date(week[i].date) : i \in 1..Len(week)})
        group(k) == SelectSeq(week, LAMBDA e : dt_date(e.date) = k)
        by_day == [i \in 1..Len(keys) |->
                      [date      |-> keys[i],
                       calories  |-> ColSum(group(keys[i]), "calories"),
                       protein_g |-> ColSum(group(keys[i]), "protein_g"),
                       sat_fat_g |-> ColSum(group(keys[i]), "sat_fat_g")]]
    IN  [week |-> week, by_day |-> by_day]

\* min(total / goal, 1.0): the value handed to st.progress.
progress_value(total, goal) ==
    LET ratio == RatDiv(total, R(goal))
    IN  IF RatLess(R(1), ratio) THEN R(1) ELSE ratio

\* st.progress accepts a value of [0.0, 1.0] and raises on any other.
progress_accepts(v) == ~RatLess(v, R(0)) /\ ~RatLess(R(1), v)

------------------------------------------------------------------------------
(* State *)

VARIABLES
    foods_csv,       \* the file foods.csv
    log_csv,         \* the file log.csv
    goals_json,      \* the file goals.json
    foods_cache,     \* the st.cache_data cache of load_foods
    foods,           \* the catalog the last run loaded (the global `foods`)
    goal_widgets,    \* the values of the three goal inputs of the session
    food_choice,     \* the value of the food selector of the session
    uploaded_foods,  \* the file held by the 'Upload foods.csv' uploader
    uploaded_log,    \* the file held by the 'Upload log.csv' uploader
    shown,           \* the values the last run handed to st.progress
    event,           \* the event the last run was started by
    stage,           \* how far the last run got
    scale_food,      \* compute_nutrients applied alone: its food row,
    scale_qty,       \*   its quantity,
    scale_out        \*   and its result

app_vars ==
    <<foods_csv, log_csv, goals_json, foods_cache, foods, goal_widgets,
      food_choice, uploaded_foods, uploaded_log, shown, event, stage>>
scale_vars == <<scale_food, scale_qty, scale_out>>
vars == <<app_vars, scale_vars>>

\* The files and the cache, as one value the script's steps pass along.
Store ==
    [foods_csv |-> foods_csv, log_csv |-> log_csv, goals_json |-> goals_json,
     foods_cache |-> foods_cache]

------------------------------------------------------------------------------
(* Data loading/saving *)

\* load_foods(): the cached catalog or, on a miss, the file (seeded when it
\* does not exist), which is then cached.
load_foods(st) ==
    IF st.foods_cache.valid
    THEN [store |-> st, value |-> st.foods_cache.content]
    ELSE LET df == IF st.foods_csv.exists THEN st.foods_csv.content ELSE Seed
         IN  [store |-> [st EXCEPT !.foods_csv = File(df),
                                   !.foods_cache = Cached(df)],
              value |-> df]

\* save_foods as it would be without load_foods.clear().
save_foods_keeping_cache(st, df) ==
    [st EXCEPT !.foods_csv = File(df)]

\* save_foods as it would be if the log held live values: every log row of a
\* food of df is written again with the nutrients of that food.
save_foods_rescaling_log(st, df) ==
    LET row_of(e) ==
            SelectSeq(df, LAMBDA f : f.name = e.food)
        rescale(e) ==
            IF row_of(e) = <<>> THEN e
            ELSE LET n == compute_nutrients(row_of(e)[1], e.quantity)
                 IN  [e EXCEPT !.calories = n.calories,
                               !.protein_g = n.protein_g,
                               !.fat_g = n.fat_g,
                               !.sat_fat_g = n.sat_fat_g]
        rows == st.log_csv.content
    IN  [st EXCEPT !.foods_csv = File(df),
                   !.foods_cache = NoCache,
                   !.log_csv = [@ EXCEPT !.content =
                                   [i \in 1..Len(rows) |-> rescale(rows[i])]]]

\* save_foods(df): write foods.csv and invalidate the cache.
save_foods(st, df) ==
    [st EXCEPT !.foods_csv = File(df), !.foods_cache = NoCache]

\* load_log(): the parsed file, created empty when it does not exist.
load_log(st) ==
    LET rows == IF st.log_csv.exists THEN st.log_csv.content ELSE <<>>
    IN  [store |-> [st EXCEPT !.log_csv = File(rows)],
         value |-> read_log_csv(rows)]

\* save_log(df): write log.csv.
save_log(st, df) ==
    [st EXCEPT !.log_csv = File(log_to_csv(df))]

\* load_goals(): the file, created with the default goals when missing.
load_goals(st) ==
    IF st.goals_json.exists
    THEN [store |-> st, value |-> st.goals_json.content]
    ELSE [store |-> [st EXCEPT !.goals_json = File(DefaultGoals)],
          value |-> DefaultGoals]

\* save_goals(goals): write goals.json.
save_goals(st, goals) ==
    [st EXCEPT !.goals_json = File(goals)]

------------------------------------------------------------------------------
(* What the user can enter *)

\* The goal values the user changes the sidebar inputs to.
GoalInputs ==
    { g \in { [calories |-> 500, protein_g |-> 20, sat_fat_g |-> 5] } :
        \A k \in DOMAIN g : g[k] >= GoalLimits[k].min /\ g[k] <= GoalLimits[k].max }

\* The dates the user logs food on.
LogDates == {Today - 7, Today}

\* The quantities the user logs of a food; the input accepts those >= 1.
QtyInputs == { q \in {R(50)} : ~RatLess(q, QtyMin) }

\* The 'Add new food' forms the user submits: a blank name with the form's
\* defaults, and a food of the seed entered again, after a blank, with other
\* values. The number inputs of the form accept a base amount >= 1 and
\* nutrients >= 0.
FoodForms ==
    { f \in { FoodRow(<<Blank>>, R(100), "g", R(0), R(0), R(0), R(0)),
              FoodRow(<<Blank, "Rolled oats (dry)">>, R(50), "g",
                      R(190), Rat(65, 10), Rat(35, 10), Rat(6, 10)) } :
        /\ ~RatLess(f.base_amount, R(1))
        /\ \A c \in NutrientCols : ~RatLess(f[c], R(0)) }

\* The foods.csv files the user uploads: the seeded file edited in a
\* spreadsheet, the base amount of its first food now 0 and the calories of
\* its second food changed; and a header without rows.
FoodsFiles ==
    { << [Seed[1] EXCEPT !.base_amount = R(0)],
         [Seed[2] EXCEPT !.calories = R(389)] >>,
      <<>> }

\* A food of no catalog of the model, met in uploaded logs only.
Milk == FoodRow(<<"Milk">>, R(100), "ml", R(64), Rat(33, 10), Rat(36, 10), Rat(23, 10))

LogRow(day, tod, food, qty, n) ==
    [date |-> [day |-> day, tod |-> tod], food |-> food.name, quantity |-> qty,
     unit |-> food.unit, base_amount |-> food.base_amount,
     calories |-> n.calories, protein_g |-> n.protein_g,
     fat_g |-> n.fat_g, sat_fat_g |-> n.sat_fat_g]

\* The log.csv files the user uploads: a row of today with a time of day;
\* and a row of today with a negative quantity and negative nutrient values.
LogFiles ==
    { << LogRow(Today, 1, Milk, R(200), compute_nutrients(Milk, R(200))) >>,
      << LogRow(Today, 0, Milk, R(-100), compute_nutrients(Milk, R(-100))) >> }

------------------------------------------------------------------------------
(* The script *)

NoChoice == <<>>

\* How far a run gets: it ends at the first exception.
Stages == {"foods_empty", "below_min", "progress", "complete"}

\* The widgets a run that got as far as `got` has put on the page.
ShowsSidebar(got) == got \in Stages
ShowsLogButton(got) == got \in {"progress", "complete"}
ShowsManageAndImport(got) == got = "complete"

Names(df) == [i \in 1..Len(df) |-> df[i].name]

\* The script is modelled section by section. Each section takes the run so
\* far, a record r, and yields the run after it:
\*   trigger, arg      the event that started the run and its input
\*   store             the files and the cache
\*   foods, log        the globals `foods` and `log`
\*   w                 cal_goal, protein_goal and sat_fat_limit
\*   choice            food_choice
\*   up_foods, up_log  the values of the two uploaders
\*   shown             the values handed to st.progress so far
\*   reached           "running", or where an exception ended the run
\* A section after an exception is not executed.

\* Lines 78-80, and the widget state the session brings to the run: a page
\* load starts a session without widget state.
LoadData(trigger, arg) ==
    LET lf == load_foods(Store)
        ll == load_log(lf.store)
        lg == load_goals(ll.store)
        fresh == trigger = "Reload"
    IN  [trigger |-> trigger, arg |-> arg,
         store |-> lg.store, foods |-> lf.value, log |-> ll.value,
         w |-> IF trigger = "EditGoals" THEN arg
               ELSE IF fresh THEN lg.value
               ELSE goal_widgets,
         \* a selector with other options is a new widget
         choice |-> IF fresh \/ Names(lf.value) # Names(foods) THEN NoChoice
                    ELSE IF trigger = "SelectFood" THEN arg
                    ELSE food_choice,
         up_foods |-> IF trigger = "UploadFoods" THEN Upload(arg)
                      ELSE IF fresh \/ trigger = "RemoveFoodsFile" THEN NoUpload
                      ELSE uploaded_foods,
         up_log |-> IF trigger = "UploadLog" THEN Upload(arg)
                    ELSE IF fresh \/ trigger = "RemoveLogFile" THEN NoUpload
                    ELSE uploaded_log,
         shown |-> <<>>,
         reached |-> "running"]

\* Lines 82-90: the goal inputs and 'Save goals'.
Sidebar(r) ==
    IF r.trigger = "SaveGoals"
    THEN [r EXCEPT !.store = save_goals(r.store, r.w)]
    ELSE r

\* Lines 95-116: the food selector, the quantity input and 'Add to log'.
\* foods[...].iloc[0] raises on a catalog without rows; st.number_input
\* raises on a default value, the base amount, below its min_value.
LogFoodTab(r) ==
    LET food_names == Names(r.foods)
        food_choice_ == IF food_names = <<>> THEN NoChoice
                        ELSE IF r.choice = NoChoice THEN food_names[1]
                        ELSE r.choice
        matching == SelectSeq(r.foods, LAMBDA f : f.name = food_choice_)
        food_row == matching[1]
        qty == r.arg.qty
        n == compute_nutrients(food_row, qty)
        new == [date |-> to_datetime(r.arg.date), food |-> food_choice_,
                quantity |-> qty, unit |-> food_row["unit"],
                base_amount |-> food_row["base_amount"],
                calories |-> n.calories, protein_g |-> n.protein_g,
                fat_g |-> n.fat_g, sat_fat_g |-> n.sat_fat_g]
        log_ == Append(r.log, new)
    IN  IF matching = <<>>
        THEN [r EXCEPT !.choice = food_choice_, !.reached = "foods_empty"]
        ELSE IF RatLess(food_row["base_amount"], QtyMin)
        THEN [r EXCEPT !.choice = food_choice_, !.reached = "below_min"]
        ELSE IF r.trigger = "AddToLog"
        THEN [r EXCEPT !.choice = food_choice_, !.log = log_,
                       !.store = save_log(r.store, log_)]
        ELSE [r EXCEPT !.choice = food_choice_]

\* Lines 124-138: the totals of today against the goals. st.progress raises
\* on the first value it does not accept.
TodayTab(r) ==
    LET totals == daily_summary(r.log, Today).totals
        bars == << progress_value(totals["calories"], r.w.calories),
                   progress_value(totals["protein_g"], r.w.protein_g),
                   progress_value(totals["sat_fat_g"], r.w.sat_fat_g) >>
        rejected == { i \in 1..3 : ~progress_accepts(bars[i]) }
        first == CHOOSE i \in rejected : \A j \in rejected : i <= j
    IN  IF r.reached # "running" THEN r
        ELSE IF rejected = {} THEN [r EXCEPT !.shown = bars]
        ELSE [r EXCEPT !.shown = SubSeq(bars, 1, first), !.reached = "progress"]

\* Lines 164-193: 'Add food'.
ManageFoodsTab(r) ==
    LET name == r.arg.name
        new_row == [r.arg EXCEPT !.name = Strip(name)]
        foods_updated == Append(r.foods, new_row)
    IN  IF r.reached # "running" THEN r
        ELSE IF r.trigger = "AddFood" /\ Strip(name) # <<>>
        THEN [r EXCEPT !.store = save_foods(r.store, foods_updated)]
        ELSE r

\* Lines 203-207: the foods.csv uploader.
ImportFoods(r) ==
    IF r.reached = "running" /\ r.up_foods.selected
    THEN [r EXCEPT !.store = save_foods(r.store, r.up_foods.content)]
    ELSE r

\* Lines 208-212: the log.csv uploader.
ImportLog(r) ==
    IF r.reached = "running" /\ r.up_log.selected
    THEN [r EXCEPT !.store = save_log(r.store, read_log_csv(r.up_log.content))]
    ELSE r

\* One execution of the script, top to bottom, and what it leaves behind.
Script(trigger, arg) ==
    \E loaded \in {LoadData(trigger, arg)} :
    \E sidebar \in {Sidebar(loaded)} :
    \E logged \in {LogFoodTab(sidebar)} :
    \E today \in {TodayTab(logged)} :
    \E managed \in {ManageFoodsTab(today)} :
    \E imported \in {ImportFoods(managed)} :
    \E r \in {ImportLog(imported)} :
        /\ foods_csv' = r.store.foods_csv
        /\ log_csv' = r.store.log_csv
        /\ goals_json' = r.store.goals_json
        /\ foods_cache' = r.store.foods_cache
        /\ foods' = r.foods
        /\ goal_widgets' = r.w
        /\ food_choice' = r.choice
        /\ uploaded_foods' = r.up_foods
        /\ uploaded_log' = r.up_log
        /\ shown' = r.shown
        /\ event' = trigger
        /\ stage' = IF r.reached = "running" THEN "complete" ELSE r.reached
        /\ UNCHANGED scale_vars

------------------------------------------------------------------------------
(* Events: each runs the script once *)

\* The page is loaded (or reloaded) in the browser: a new session.
Reload ==
    /\ stage \in Stages \cup {"none"}
    /\ Script("Reload", <<>>)

\* The user changes the goal inputs of the sidebar.
EditGoals ==
    /\ ShowsSidebar(stage)
    /\ \E g \in GoalInputs : Script("EditGoals", g)

\* The user presses 'Save goals'.
SaveGoals ==
    /\ ShowsSidebar(stage)
    /\ Script("SaveGoals", <<>>)

\* The user selects another food of the selector.
SelectFood ==
    /\ ShowsSidebar(stage)
    /\ \E i \in 1..Len(foods) : Script("SelectFood", foods[i].name)

\* The user presses 'Add to log' for a date and a quantity.
AddToLog ==
    /\ ShowsLogButton(stage)
    /\ log_csv.exists /\ Len(log_csv.content) < MaxLog
    /\ \E d \in LogDates, q \in QtyInputs :
           Script("AddToLog", [date |-> d, qty |-> q])

\* The user presses 'Add food' on a filled form.
AddFood ==
    /\ ShowsManageAndImport(stage)
    /\ Len(foods) <= MaxFoods
    /\ \E f \in FoodForms : Script("AddFood", f)

\* The user puts a file into the 'Upload foods.csv' uploader.
UploadFoods ==
    /\ ShowsManageAndImport(stage)
    /\ \E file \in FoodsFiles : Script("UploadFoods", file)

\* The user puts a file into the 'Upload log.csv' uploader.
UploadLog ==
    /\ ShowsManageAndImport(stage)
    /\ \E file \in LogFiles : Script("UploadLog", file)

\* The user removes the file from the 'Upload foods.csv' uploader.
RemoveFoodsFile ==
    /\ ShowsManageAndImport(stage)
    /\ uploaded_foods.selected
    /\ Script("RemoveFoodsFile", <<>>)

\* The user removes the file from the 'Upload log.csv' uploader.
RemoveLogFile ==
    /\ ShowsManageAndImport(stage)
    /\ uploaded_log.selected
    /\ Script("RemoveLogFile", <<>>)

\* Before the first run: no file exists, nothing is cached, no page is shown.
AppInit ==
    /\ foods_csv = NoFile
    /\ log_csv = NoFile
    /\ goals_json = NoFile
    /\ foods_cache = NoCache
    /\ foods = <<>>
    /\ goal_widgets = DefaultGoals
    /\ food_choice = NoChoice
    /\ uploaded_foods = NoUpload
    /\ uploaded_log = NoUpload
    /\ shown = <<>>
    /\ event = "none"
    /\ stage = "none"

NotScaled ==
    [computed |-> FALSE,
     n |-> [calories |-> R(0), protein_g |-> R(0), fat_g |-> R(0), sat_fat_g |-> R(0)]]

Init ==
    /\ AppInit
    /\ scale_food = Seed[1]
    /\ scale_qty = R(1)
    /\ scale_out = NotScaled

Next ==
    \/ Reload
    \/ EditGoals
    \/ SaveGoals
    \/ SelectFood
    \/ AddToLog
    \/ AddFood
    \/ UploadFoods
    \/ UploadLog
    \/ RemoveFoodsFile
    \/ RemoveLogFile

Spec == Init /\ [][Next]_vars

------------------------------------------------------------------------------
(* compute_nutrients alone, over food definitions and quantities *)

\* Base amounts, quantities and nutrient values run over the halves up to
\* MaxHalves / 2.
MaxHalves == 3

PositiveHalves == { Rat(k, 2) : k \in 1..MaxHalves }
Halves == { Rat(k, 2) : k \in 0..MaxHalves }

\* The food definitions: a positive base amount, one of the three units of
\* the 'Add new food' form, nutrient values >= 0.
FoodDefinitions ==
    { FoodRow(<<"food">>, b, u, c, p, f, sf) :
        b \in PositiveHalves, u \in {"g", "ml", "unit"},
        c \in Halves, p \in Halves, f \in Halves, sf \in Halves }

ScaleInit ==
    /\ AppInit
    /\ scale_food \in FoodDefinitions
    /\ scale_qty \in PositiveHalves
    /\ scale_out = NotScaled

Scale ==
    /\ ~scale_out.computed
    /\ scale_out' = [computed |-> TRUE,
                     n |-> compute_nutrients(scale_food, scale_qty)]
    /\ UNCHANGED <<app_vars, scale_food, scale_qty>>

ScaleNext == Scale

SpecScale == ScaleInit /\ [][ScaleNext]_vars

------------------------------------------------------------------------------
(* What the stores hold *)

\* The rows of log.csv, none while the file does not exist.
LogRows == IF log_csv.exists THEN log_csv.content ELSE <<>>

\* The rows of foods.csv as the next load finds them: the seed while the
\* file does not exist.
CatalogRows == IF foods_csv.exists THEN foods_csv.content ELSE Seed

\* The days the properties range over: from the first day logged to tomorrow.
Days == 0..(Today + 1)

Range(seq) == { seq[i] : i \in 1..Len(seq) }

IsPrefix(p, q) == Len(p) <= Len(q) /\ SubSeq(q, 1, Len(p)) = p

\* The run of 'Add food' on the form f.
AddFoodOf(f) == ShowsManageAndImport(stage) /\ Script("AddFood", f)

------------------------------------------------------------------------------
(* Properties *)

\* C1: the rows of the log store are snapshots: a run that changes the
\* catalog (an 'Add food', also of a name the catalog has, or the upload of
\* a replacement catalog) leaves every row of the log store as it was
\* written, with its calories, protein_g, fat_g, sat_fat_g, quantity and
\* base_amount.
C1_LogRowsAreSnapshots ==
    [][ event' \in {"AddFood", "UploadFoods"} => LogRows' = LogRows ]_vars

\* C1 happens: the store holds a log row of a food whose catalog entry has
\* changed since, so that scaling the entry of today by the row's quantity
\* no longer gives the row's calories.
C1_Witness ==
    \E i \in 1..Len(LogRows) :
        \E j \in 1..Len(CatalogRows) :
            /\ CatalogRows[j].name = LogRows[i].food
            /\ ~RatLess(CatalogRows[j].base_amount, QtyMin)
            /\ compute_nutrients(CatalogRows[j], LogRows[i].quantity).calories
                   # LogRows[i].calories

\* C2: 'Add to log' leaves the log store as the rows it held, in their
\* order, followed by the new row; and no run other than the upload of a
\* log removes or changes a row of the store.
C2_AppendKeepsRows ==
    [][ /\ (event' = "AddToLog" /\ ShowsLogButton(stage'))
            => /\ Len(LogRows') = Len(LogRows) + 1
               /\ IsPrefix(LogRows, LogRows')
        /\ event' # "UploadLog" => IsPrefix(LogRows, LogRows') ]_vars

\* C3: a food added by 'Add food' under a name that is not blank is in the
\* catalog store after the run; and no run other than the upload of a
\* catalog removes a row of the store.
C3_AddedFoodStays ==
    [][ /\ \A f \in FoodForms :
               (AddFoodOf(f) /\ Strip(f.name) # <<>> /\ stage' = "complete")
                   => [f EXCEPT !.name = Strip(f.name)] \in Range(CatalogRows')
        /\ event' # "UploadFoods"
            => Range(CatalogRows) \subseteq Range(CatalogRows') ]_vars

\* A log file the import has to reject: a row with a negative quantity.
RejectedLog(file) ==
    \E i \in 1..Len(file) : RatLess(file[i].quantity, R(0))

\* C4: the upload of a log replaces or rejects: a file with a row of
\* negative quantity leaves the log store as it was, any other file becomes
\* the log store.
C4_LogImportReplacesOrRejects ==
    [][ (event' = "UploadLog" /\ stage' = "complete")
            => IF RejectedLog(uploaded_log'.content)
               THEN LogRows' = LogRows
               ELSE LogRows' = uploaded_log'.content ]_vars

\* C5: every food of the catalog store has a base amount > 0.
C5_BaseAmountPositive ==
    \A i \in 1..Len(CatalogRows) : RatLess(R(0), CatalogRows[i].base_amount)

\* The rows of a log whose calendar day is `day`.
EntriesOn(log_df, day) == SelectSeq(log_df, LAMBDA e : dt_date(e.date) = day)

\* C6: the totals of a day are the sums of the four nutrients over the log
\* rows whose calendar day is that day, all zero when there is none.
C6_DailyTotals ==
    \A day \in Days :
        daily_summary(read_log_csv(LogRows), day).totals
            = [c \in NutrientCols |-> ColSum(EntriesOn(read_log_csv(LogRows), day), c)]

\* C7: the weekly rollup to an end day has exactly one row for every
\* calendar day of the seven days to the end day that has a log row,
\* whatever its time of day, with the sums of that day's rows, and no row
\* for another day.
C7_WeeklyRollup ==
    \A end_day \in Days :
        LET log_df == read_log_csv(LogRows)
            by_day == weekly_summary(log_df, end_day).by_day
        IN  \A x \in Days :
                LET rows == SelectSeq(by_day, LAMBDA row : row.date = x)
                    entries == EntriesOn(log_df, x)
                IN  IF x >= end_day - 6 /\ x <= end_day /\ entries # <<>>
                    THEN /\ Len(rows) = 1
                         /\ rows[1].calories = ColSum(entries, "calories")
                         /\ rows[1].protein_g = ColSum(entries, "protein_g")
                         /\ rows[1].sat_fat_g = ColSum(entries, "sat_fat_g")
                    ELSE rows = <<>>

\* C8: every value handed to a progress bar is in [0, 1], and every goal it
\* was divided by is > 0.
C8_ProgressInUnitInterval ==
    /\ \A i \in 1..Len(shown) :
           ~RatLess(shown[i], R(0)) /\ ~RatLess(R(1), shown[i])
    /\ \A k \in DOMAIN goal_widgets : goal_widgets[k] > 0

\* C9: each nutrient of the scaled food is that nutrient of the food times
\* the quantity over the base amount, whatever the unit; scaled by its base
\* amount a food keeps its nutrients.
C9_ScaleIsLinear ==
    scale_out.computed =>
        /\ \A c \in NutrientCols :
               scale_out.n[c]
                   = RatDiv(RatMul(scale_food[c], scale_qty), scale_food.base_amount)
        /\ scale_qty = scale_food.base_amount =>
               \A c \in NutrientCols : scale_out.n[c] = scale_food[c]

\* C9 happens: a food with calories was scaled by another quantity than its
\* base amount, and one by its base amount.
C9_Witness ==
    /\ scale_out.computed
    /\ scale_food.unit = "ml"
    /\ RatLess(R(0), scale_food.calories)
    /\ scale_qty # scale_food.base_amount
    /\ scale_out.n.calories # scale_food.calories

\* C10: the catalog a run loads is the catalog the store holds when the run
\* starts.
C10_LoadedCatalogIsCurrent ==
    [][ foods' = CatalogRows ]_vars

\* C10 happens: a run has loaded, and cached, a catalog written by an
\* earlier run.
C10_Witness ==
    /\ foods_cache.valid
    /\ foods = foods_cache.content
    /\ foods # Seed
    /\ foods # <<>>

==============================================================================
